---- MODULE Spec2Model ----
(***************************************************************************)
(* Task manager with role-based access: the API Gateway request pipeline   *)
(* (Lambda authorizer, then the tasks Lambda) over the DynamoDB tasks      *)
(* table, the resource-level authorization service, the tasks Lambda       *)
(* serving several requests at once, and the TaskList and TaskForm         *)
(* components of the frontend.                                             *)
(*                                                                         *)
(*   tasks handler and authorizer : src/backend/tests/unit/tasks.test.ts   *)
(*                                  (lines 537-722 and 723-760)            *)
(*   gateway wiring, user groups  : src/infrastructure/lib/                *)
(*                                  task-manager-stack.ts                  *)
(*   TaskAuthorizationService     : src/unnamed/part_000 (lines 113-137)   *)
(*   findTasksByRole              : src/unnamed/part_000 (lines 168-190)   *)
(*   JWTValidator                 : src/unnamed/part_000 (lines 198-225)   *)
(*   TaskList                     : src/frontend/src/components/           *)
(*                                  TaskList.tsx                           *)
(*   TaskForm                     : src/frontend/src/App.test.tsx          *)
(*                                  (lines 14-140)                         *)
(***************************************************************************)
EXTENDS Naturals, Sequences, FiniteSets, TLC

(***************************************************************************)
(* Bounds of the model.                                                    *)
(***************************************************************************)
\* number of distinct user ids (token subjects, task creators, assignees)
NumUsers == 2
\* longest cognito:groups list carried by a token
MaxGroups == 2

\* number of validateToken calls that can be under way at once
NumCalls == 2

UserNames == <<"alice", "bob", "carol", "dave">>
Users     == {UserNames[i] : i \in 1..NumUsers}
\* keys of the tasks table
TaskIds   == {"t1", "t2"}
\* Task.status values the model uses (two of the three of the type)
Statuses  == {"pending", "completed"}

\* what a property read through `?.` yields when the object is absent
Undefined == "undefined"

(***************************************************************************)
(* Roles and groups.                                                       *)
(***************************************************************************)
\* the three user pool groups the stack creates
Roles == {"Admin", "Contributor", "Viewer"}
\* group names a token can carry: the pool's groups, and one the authorizer
\* does not know (the unit tests use 'Users')
GroupNames == Roles \cup {"Users"}

\* cognito:groups claims: lists without repetition, in any order
GroupLists ==
  {g \in UNION {[1..n -> GroupNames] : n \in 0..MaxGroups} :
      \A i, j \in 1..Len(g) : i # j => g[i] # g[j]}

(***************************************************************************)
(* Credentials.  A request carries an Authorization header or none; a      *)
(* token is either accepted by verifier.verify or rejected for one of the  *)
(* listed faults.                                                          *)
(***************************************************************************)
TokenFaults == {"malformed", "badSignature", "expired"}
NoToken == [kind |-> "missing"]
Tokens ==
  [kind : {"valid"}, sub : Users, groups : GroupLists]
    \cup [kind : TokenFaults, sub : Users, groups : {<< >>}]
Credentials == Tokens \cup {NoToken}

VARIABLES
  store,            \* the tasks table: taskId -> item, for the items present
  pc,               \* where the request in flight is in the pipeline
  token,            \* the credential of the request in flight
  authorizerResult, \* what the authorizer Lambda returned or threw
  authRuns,         \* authorizer invocations for the request in flight
  handlerRuns,      \* tasks handler invocations for the request in flight
  authContext,      \* the AuthContext the handler builds from the event
  event,            \* httpMethod and taskId path parameter of the request
  before,           \* the table as it was when the request arrived
  item,             \* updateTask: the merged item waiting to be Put
  response,         \* the handler's response
  svc,              \* the last TaskAuthorizationService call and its result
  denials,          \* the (cause, outcome) pairs of the denials observed
  cache,            \* the gateway's cached authorizer result
  calls,            \* JWTValidator: the validateToken calls under way
  keySet,           \* JWTValidator: the key ids of the cached key set
  refresh,          \* JWTValidator: the key-set fetches in flight
  cooldown,         \* JWTValidator: per key id, the number of refreshes
                    \* started for it within its running cooldown window
  now,              \* the clock read by Date.now(), as an index of Instants
  requests,         \* the tasks handler invocations that run side by side
  taskList,         \* TaskList: its props, what it rendered, its callbacks
  taskForm          \* TaskForm: formData, errors and the onSubmit calls

\* the state of the request pipeline and of the JWTValidator
pipelineVars == <<store, pc, token, authorizerResult, authRuns, handlerRuns,
                  authContext, event, before, item, response, svc, denials,
                  cache>>
validatorVars == <<calls, keySet, refresh, cooldown, now>>

componentVars == <<taskList, taskForm>>

vars == <<pipelineVars, validatorVars, requests, componentVars>>

NoResult   == [kind |-> "none"]
NoContext  == [userId |-> Undefined, role |-> Undefined]
NoEvent    == [httpMethod |-> "none"]
NoItem     == [none |-> TRUE]
NoResponse == [statusCode |-> 0]
NoSvc      == [fn |-> "none"]
NoCache    == [cached |-> FALSE]
EmptyTable == [k \in {} |-> NoItem]


(***************************************************************************)
(* The authorizer Lambda (tasks.test.ts 723-760).                          *)
(***************************************************************************)
\* verifier.verify(token) resolves for a token the pool issued that is
\* intact and current, and rejects every other one  (line 737)
verify(t) == t.kind = "valid"

\* the error raised inside the try block, "none" when it completes
\* (lines 734-738): no header or no token in it, or verify rejects
tryError(cred) ==
  IF cred.kind = "missing" THEN "No token provided"
  ELSE IF ~verify(cred) THEN cred.kind
  ELSE "none"

\* the catch block forwarding the error it caught
catchRethrows(error) == error

\* catch (error) { throw new Error('Unauthorized') }  (lines 757-759)
catchThrows(error) == "Unauthorized"

\* role: (groups[0] as string) || 'Viewer'  (line 753)
contextRole(groups) == IF Len(groups) > 0 THEN groups[1] ELSE "Viewer"

\* the authorizer's result: the Allow policy with its context, or the
\* error it throws
authorizerHandler(cred) ==
  IF tryError(cred) # "none"
  THEN [kind |-> "thrown", message |-> catchThrows(tryError(cred))]
  ELSE [kind        |-> "policy",
        principalId |-> cred.sub,
        effect      |-> "Allow",
        context     |-> [userId |-> cred.sub,
                         role   |-> contextRole(cred.groups),
                         groups |-> cred.groups]]

(***************************************************************************)
(* JWTValidator (part_000 198-225): its inputs and what each call carries. *)
(***************************************************************************)
CallIds == 1..NumCalls

\* key ids: "k1" is in the key set the validator starts with, "k2" was
\* published by the identity provider afterwards, "k3" is published nowhere
Kids          == {"k1", "k2", "k3"}
CachedKeys    == {"k1"}
PublishedKeys == {"k1", "k2"}

\* if (tokenAge > 86400)  (line 216), in seconds
maxAge == 86400

\* the instants the clock goes through, in the milliseconds of Date.now():
\* one second before a token issued at 0 reaches maxAge, the instant it
\* reaches it, one millisecond later, one second later
Instants == <<86399000, 86400000, 86400001, 86401000>>

\* the payloads of the tokens: iat and exp in seconds
Payloads ==
  [sub    : {"alice"},
   iat    : {0, 1},
   exp    : {86400, 172800},
   groups : {<< >>, <<"Viewer">>}]

\* a token as validateToken is handed it: a string jwt.decode makes nothing
\* of, or a three-part JWT with the key id of its header, who signed it
\* ("pool": the key the key id names), its issuer and audience claims
\* ("pool": the configured ones) and its payload
MalformedToken == [kind |-> "malformed"]
JwtTokens ==
  [kind : {"jwt"}, kid : Kids, signedBy : {"pool", "other"},
   issuer : {"pool", "other"}, payload : Payloads]
ValidatorTokens == JwtTokens \cup {MalformedToken}

\* the tokens of the pool's users as they are issued: rightly signed, not
\* expired, with a group
IssuedTokens ==
  {t \in JwtTokens : /\ t.signedBy = "pool"
                     /\ t.issuer = "pool"
                     /\ t.payload = [sub |-> "alice", iat |-> 0,
                                     exp |-> 172800, groups |-> <<"Viewer">>]}

\* a call slot with no call in it
IdleCall == [pc |-> "idle"]

(***************************************************************************)
(* The data of the concurrent handler invocations and of the frontend      *)
(* components.                                                             *)
(***************************************************************************)
\* number of tasks handler invocations that can run side by side
NumRequests == 2
RequestIds == 1..NumRequests
\* an invocation slot with no invocation in it
IdleRequest == [pc |-> "idle"]

\* longest text typed into a form field or sent as a title
MaxLen == 2
\* a text is the sequence of its characters: a blank and a letter
Chars == {" ", "a"}
Texts == UNION {[1..n -> Chars] : n \in 0..MaxLen}

\* String.prototype.trim: the text without its leading and trailing blanks
RECURSIVE trimStart(_)
trimStart(text) ==
  IF Len(text) > 0 /\ text[1] = " "
  THEN trimStart(SubSeq(text, 2, Len(text)))
  ELSE text
RECURSIVE trimEnd(_)
trimEnd(text) ==
  IF Len(text) > 0 /\ text[Len(text)] = " "
  THEN trimEnd(SubSeq(text, 1, Len(text) - 1))
  ELSE text
trim(text) == trimEnd(trimStart(text))

\* longest tasks array handed to TaskList
MaxTasks == 2

\* TaskList before its first render
Unmounted == [mounted |-> FALSE]

\* no call of a callback prop
NoCall == [called |-> FALSE]

\* TaskForm as useState leaves it on the first render (App.test.tsx 23-31):
\* empty fields, priority 'medium', no errors; nothing submitted or edited
InitialForm ==
  [formData |-> [title       |-> << >>,
                 description |-> << >>,
                 deadline    |-> << >>,
                 priority    |-> "medium",
                 assignedTo  |-> << >>],
   errors   |-> [f \in {} |-> ""],
   handled  |-> "none",
   onSubmit |-> NoCall]

(***************************************************************************)
(* The gateway (task-manager-stack.ts 94-102).                             *)
(***************************************************************************)
\* the methods a request can come with: tasksResource.addMethod('ANY', ...)
Methods == {"GET", "POST", "PUT", "DELETE", "PATCH"}

\* the gateway invokes the integration of a method that has an authorizer
\* once it holds an Allow policy for the request
integrationReady ==
  /\ pc = "authorized"
  /\ authorizerResult.kind = "policy"
  /\ authorizerResult.effect = "Allow"

\* event.requestContext.authorizer?.userId / ?.role  (lines 576-581); the
\* groups list is parsed there too and no branch of the handler reads it
handlerAuthContext ==
  IF authorizerResult.kind = "policy"
  THEN [userId |-> authorizerResult.context.userId,
        role   |-> authorizerResult.context.role]
  ELSE NoContext

Init ==
  /\ store = EmptyTable
  /\ pc = "idle"
  /\ token = NoToken
  /\ authorizerResult = NoResult
  /\ authRuns = 0
  /\ handlerRuns = 0
  /\ authContext = NoContext
  /\ event = NoEvent
  /\ before = EmptyTable
  /\ item = NoItem
  /\ response = NoResponse
  /\ svc = NoSvc
  /\ denials = {}
  /\ cache = NoCache
  /\ calls = [i \in CallIds |-> IdleCall]
  /\ keySet = CachedKeys
  /\ refresh = {}
  /\ cooldown = [k \in Kids |-> 0]
  /\ now = 1
  /\ requests = [r \in RequestIds |-> IdleRequest]
  /\ taskList = Unmounted
  /\ taskForm = InitialForm

\* the per-request state of a pipeline with no request in flight
Cleared ==
  /\ token' = NoToken
  /\ authorizerResult' = NoResult
  /\ authRuns' = 0
  /\ handlerRuns' = 0
  /\ authContext' = NoContext
  /\ event' = NoEvent
  /\ before' = EmptyTable
  /\ item' = NoItem
  /\ response' = NoResponse
  /\ svc' = NoSvc

\* a request arrives at the gateway with a credential the gateway holds no
\* cached result for.  The cache is modelled with room for one entry: the
\* entry of another credential counts as expired from here on.
Request ==
  /\ pc = "idle"
  /\ \E cred \in Credentials : token' = cred
  /\ pc' = "received"
  /\ before' = store
  /\ cache' = NoCache
  /\ UNCHANGED <<store, authorizerResult, authRuns, handlerRuns, authContext,
                 event, item, response, svc, denials>>
  /\ UNCHANGED <<validatorVars, requests, componentVars>>

\* a request arrives with the Authorization header of the cached entry,
\* before the entry expired: RequestAuthorizer is built with identitySources
\* and without resultsCacheTtl (task-manager-stack.ts 94-97), which leaves
\* the gateway caching each result under the header for the construct's
\* default time.  The gateway does not run the authorizer: it applies the
\* cached policy, whose one statement allows the method ARN of the request
\* that produced it (tasks.test.ts 742-749), and hands the cached context on.
RequestCached ==
  /\ pc = "idle"
  /\ cache.cached
  /\ before' = store
  /\ \E method \in Methods :
       IF method = cache.httpMethod
       THEN /\ pc' = "integration"
            /\ authContext' = cache.context
            /\ event' = [httpMethod |-> method, taskId |-> Undefined]
            /\ authorizerResult' = NoResult
       ELSE /\ pc' = "rejected"
            /\ authorizerResult' = [kind |-> "cachedPolicy", effect |-> "Deny"]
            /\ UNCHANGED <<authContext, event>>
  /\ UNCHANGED <<store, token, authRuns, handlerRuns, item, response, svc,
                 denials, cache>>
  /\ UNCHANGED <<validatorVars, requests, componentVars>>

\* the cached entry's time runs out between two requests
CacheExpire ==
  /\ pc = "idle"
  /\ cache.cached
  /\ cache' = NoCache
  /\ UNCHANGED <<store, pc, token, authorizerResult, authRuns, handlerRuns,
                 authContext, event, before, item, response, svc, denials>>
  /\ UNCHANGED <<validatorVars, requests, componentVars>>

\* the caller has its answer (the handler's response, the 401 of a failed
\* authorizer, or the service's result) and the request or call is over
Reply ==
  /\ pc \in {"rejected", "done", "answered"}
  /\ pc' = "idle"
  /\ Cleared
  /\ UNCHANGED <<store, denials, cache>>
  /\ UNCHANGED <<validatorVars, requests, componentVars>>

\* the gateway runs the authorizer Lambda on the request's credential; a
\* thrown error ends the request
AuthorizerStep ==
  /\ pc = "received"
  /\ authorizerResult' = authorizerHandler(token)
  /\ authRuns' = authRuns + 1
  /\ pc' = IF authorizerResult'.kind = "thrown" THEN "rejected" ELSE "authorized"
  /\ UNCHANGED <<store, token, handlerRuns, authContext, event, before,
                 item, response, svc, cache>>
  /\ UNCHANGED <<validatorVars, requests, componentVars>>

Authorizer == AuthorizerStep /\ UNCHANGED denials

\* the same step, with the failure's cause and what the caller is shown
\* added to the record of denials
AuthorizerObserved ==
  /\ AuthorizerStep
  /\ denials' =
       IF authorizerResult'.kind = "thrown"
       THEN denials \cup {[cause |-> tryError(token),
                           shown |-> authorizerResult'.message]}
       ELSE denials

\* the gateway, done with the credential, passes the request to the tasks
\* Lambda with the authorizer's context in event.requestContext.authorizer,
\* and caches the result with the method its policy allows
Integrate ==
  /\ integrationReady
  /\ pc' = "integration"
  /\ authContext' = handlerAuthContext
  /\ \E method \in Methods :
       /\ event' = [httpMethod |-> method, taskId |-> Undefined]
       /\ cache' = [cached |-> TRUE, context |-> handlerAuthContext,
                    httpMethod |-> method]
  /\ token' = NoToken
  /\ authorizerResult' = NoResult
  /\ UNCHANGED <<store, authRuns, handlerRuns, before, item, response,
                 svc, denials>>
  /\ UNCHANGED <<validatorVars, requests, componentVars>>



(***************************************************************************)
(* The tasks table.                                                        *)
(***************************************************************************)
\* PutCommand: the item replaces whatever is stored under its own taskId
Put(table, it) ==
  [k \in DOMAIN table \cup {it.taskId} |->
     IF k = it.taskId THEN it ELSE table[k]]

\* DeleteCommand: removes the key; succeeds when the key is absent too
Delete(table, taskId) ==
  [k \in DOMAIN table \ {taskId} |-> table[k]]

\* ScanCommand: the items present, in an order the handler does not choose
ScanResults(table) ==
  {[i \in 1..Len(ord) |-> table[ord[i]]] :
     ord \in {o \in [1..Cardinality(DOMAIN table) -> DOMAIN table] :
                \A i, j \in DOMAIN o : i # j => o[i] # o[j]}}

\* the fields a request body can give for an update: any subset of these,
\* each with a value of its type
UpdateFields == {"taskId", "createdBy", "assignedTo", "status"}

\* { ...task, ...updates }  (line 689, which then sets updatedAt)
Merge(task, updates) ==
  [f \in DOMAIN task \cup DOMAIN updates |->
     IF f \in DOMAIN updates THEN updates[f] ELSE task[f]]

(***************************************************************************)
(* The tasks Lambda (tasks.test.ts 567-722).                               *)
(***************************************************************************)
\* the filter with the Contributor branch testing the assignee only
getTasksFilterAssigneeOnly(task, auth) ==
  IF auth.role = "Viewer" THEN task.assignedTo = auth.userId
  ELSE IF auth.role = "Contributor" THEN task.assignedTo = auth.userId
       ELSE TRUE

\* getTasks: the role-based filter  (lines 613-618)
getTasksFilter(task, auth) ==
  IF auth.role = "Viewer" THEN task.assignedTo = auth.userId
  ELSE IF auth.role = "Contributor"
       THEN task.assignedTo = auth.userId \/ task.createdBy = auth.userId
       ELSE TRUE

\* createTask: the role check  (line 628)
createTaskDenied(auth) == auth.role = "Viewer"

\* the permission check without its Viewer clause
updateTaskDeniedNoViewerClause(task, auth) ==
  /\ auth.role = "Contributor"
  /\ task.createdBy # auth.userId
  /\ task.assignedTo # auth.userId

\* updateTask: the permission check  (lines 680-681)
updateTaskDenied(task, auth) ==
  \/ auth.role = "Viewer"
  \/ /\ auth.role = "Contributor"
     /\ task.createdBy # auth.userId
     /\ task.assignedTo # auth.userId

\* the role check turned into the one createTask uses
deleteTaskDeniedViewerOnly(auth) == auth.role = "Viewer"

\* deleteTask: the role check  (line 704)
deleteTaskDenied(auth) == auth.role # "Admin"

\* updateTask: the status it answers before it merges (lines 668-687): 404
\* when the Get finds no item, then 403 when the permission check refuses;
\* 0 when it goes on to the merge
updateTaskEarly(table, taskId, auth) ==
  IF taskId \notin DOMAIN table THEN 404
  ELSE IF updateTaskDenied(table[taskId], auth) THEN 403
  ELSE 0

\* deleteTask: the status it answers before the DeleteCommand (lines
\* 704-710): 403 when the role check refuses, with no read of the table;
\* 0 when it goes on to delete
deleteTaskEarly(table, taskId, auth) ==
  IF deleteTaskDenied(auth) THEN 403 ELSE 0

Forbidden(msg) == [statusCode |-> 403, error |-> msg, data |-> NoItem]
Ok(code, d)    == [statusCode |-> code, error |-> "", data |-> d]

\* what every handler invocation starts with  (lines 576-586): the
\* AuthContext the gateway handed over, the method and the path parameter
Invoke(method, taskId) ==
  /\ pc = "integration"
  /\ event.httpMethod = method
  /\ handlerRuns' = handlerRuns + 1
  /\ event' = [httpMethod |-> method, taskId |-> taskId]
  /\ UNCHANGED <<token, authorizerResult, authContext, authRuns, before, svc,
                 denials, cache>>
  /\ UNCHANGED <<validatorVars, requests, componentVars>>

\* GET: getTasks  (lines 607-625)
GetTasks ==
  /\ Invoke("GET", Undefined)
  /\ \E items \in ScanResults(store) :
       response' = Ok(200, SelectSeq(items,
                             LAMBDA t : getTasksFilter(t, authContext)))
  /\ pc' = "done"
  /\ UNCHANGED <<store, item>>

\* POST: createTask  (lines 627-660); uuidv4() is an id not in the table,
\* the body may name an assignee
CreateTask ==
  /\ Invoke("POST", Undefined)
  /\ IF createTaskDenied(authContext)
     THEN /\ response' = Forbidden("Insufficient permissions")
          /\ UNCHANGED store
     ELSE \E id \in TaskIds \ DOMAIN store, a \in Users \cup {Undefined} :
            LET task == [taskId     |-> id,
                         status     |-> "pending",
                         assignedTo |-> IF a = Undefined
                                        THEN authContext.userId ELSE a,
                         createdBy  |-> authContext.userId,
                         updatedAt  |-> Instants[now]]
            IN /\ store' = Put(store, task)
               /\ response' = Ok(201, task)
  /\ pc' = "done"
  /\ UNCHANGED item

\* PUT: updateTask up to its PutCommand  (lines 662-689): the Get, the 404,
\* the permission check and the merge
UpdateTaskGet ==
  \E taskId \in TaskIds :
    /\ Invoke("PUT", taskId)
    /\ IF taskId \notin DOMAIN store
       THEN /\ response' = [statusCode |-> 404, error |-> "Task not found",
                            data |-> NoItem]
            /\ pc' = "done"
            /\ UNCHANGED item
       ELSE IF updateTaskDenied(store[taskId], authContext)
       THEN /\ response' = Forbidden("Insufficient permissions")
            /\ pc' = "done"
            /\ UNCHANGED item
       ELSE \E t \in TaskIds \cup {Undefined}, c \in Users \cup {Undefined},
               a \in Users \cup {Undefined}, s \in Statuses \cup {Undefined} :
              LET given == [taskId |-> t, createdBy |-> c,
                            assignedTo |-> a, status |-> s]
                  updates == [f \in {g \in UpdateFields : given[g] # Undefined}
                                |-> given[f]]
              IN /\ item' = [Merge(store[taskId], updates)
                               EXCEPT !.updatedAt = Instants[now]]
                 /\ response' = NoResponse
                 /\ pc' = "put"
    /\ UNCHANGED store

\* PUT: updateTask from its PutCommand on  (lines 691-700)
UpdateTaskPut ==
  /\ pc = "put"
  /\ store' = Put(store, item)
  /\ response' = Ok(200, item)
  /\ pc' = "done"
  /\ UNCHANGED <<token, authorizerResult, authRuns, handlerRuns, authContext,
                 event, before, item, svc, denials, cache>>
  /\ UNCHANGED <<validatorVars, requests, componentVars>>

\* DELETE: deleteTask  (lines 703-722)
DeleteTask ==
  \E taskId \in TaskIds :
    /\ Invoke("DELETE", taskId)
    /\ IF deleteTaskDenied(authContext)
       THEN /\ response' = Forbidden("Only Admins can delete tasks")
            /\ UNCHANGED store
       ELSE /\ store' = Delete(store, taskId)
            /\ response' = Ok(200, NoItem)
    /\ pc' = "done"
    /\ UNCHANGED item

\* any other method  (lines 595-596)
MethodNotAllowed ==
  /\ Invoke("PATCH", Undefined)
  /\ response' = [statusCode |-> 405, error |-> "Method not allowed",
                  data |-> NoItem]
  /\ pc' = "done"
  /\ UNCHANGED <<store, item>>

(***************************************************************************)
(* The tasks Lambda over a table whose commands can be rejected, with the  *)
(* title of the request body (tasks.test.ts 598-604, 607-660).             *)
(***************************************************************************)
\* the messages of the errors a rejected command carries
StoreErrors == {"DynamoDB error", "Requested resource not found"}

\* catch (error): 500 with the message of the error caught  (lines 598-604)
catchResponse(message) ==
  [statusCode |-> 500, error |-> message, data |-> NoItem]

\* GET: getTasks when docClient.send rejects the ScanCommand  (line 609):
\* the await throws out of getTasks into the handler's catch
GetTasksRejected ==
  /\ Invoke("GET", Undefined)
  /\ \E message \in StoreErrors : response' = catchResponse(message)
  /\ pc' = "done"
  /\ UNCHANGED <<store, item>>

\* the titles a createTask body comes with: '', ' ', a word
BodyTitles == {<< >>, <<" ">>, <<"a">>}

\* the createTask bodies: with a title or with none, with an assignee or
\* with none
Bodies ==
  [assignedTo : Users \cup {Undefined}]
    \cup [title : BodyTitles, assignedTo : Users \cup {Undefined}]

\* the item createTask builds  (lines 636-648); title: taskData.title! is
\* undefined for a body without a title, and the item then has no title
newTask(id, body, auth, updatedAt) ==
  LET task == [taskId     |-> id,
               status     |-> "pending",
               assignedTo |-> IF body.assignedTo = Undefined
                              THEN auth.userId ELSE body.assignedTo,
               createdBy  |-> auth.userId,
               updatedAt  |-> updatedAt]
  IN IF "title" \in DOMAIN body
     THEN [f \in DOMAIN task \cup {"title"} |->
             IF f = "title" THEN body.title ELSE task[f]]
     ELSE task

\* POST: createTask with the title of its body  (lines 627-660).  An
\* undefined title is an undefined attribute of the item handed to the
\* document client, whose marshalling is library code: the Put writes the
\* item without it, or rejects it and the error reaches the handler's
\* catch.
CreateTaskWithBody ==
  /\ pc = "integration"
  /\ event.httpMethod = "POST"
  /\ handlerRuns' = handlerRuns + 1
  /\ \E body \in Bodies :
       /\ event' = [httpMethod |-> "POST", taskId |-> Undefined,
                    body |-> body]
       /\ IF createTaskDenied(authContext)
          THEN /\ response' = Forbidden("Insufficient permissions")
               /\ UNCHANGED store
          ELSE \E id \in TaskIds \ DOMAIN store :
                 LET task == newTask(id, body, authContext, Instants[now])
                 IN \/ /\ store' = Put(store, task)
                       /\ response' = Ok(201, task)
                    \/ /\ "title" \notin DOMAIN body
                       /\ \E message \in StoreErrors :
                            response' = catchResponse(message)
                       /\ UNCHANGED store
  /\ pc' = "done"
  /\ UNCHANGED <<token, authorizerResult, authContext, authRuns, before,
                 item, svc, denials, cache>>
  /\ UNCHANGED <<validatorVars, requests, componentVars>>

(***************************************************************************)
(* The resource-level authorization service (part_000 113-137).            *)
(***************************************************************************)
Bool(b) == IF b THEN "true" ELSE "false"

\* the service without the Admin return of line 120
authorizeTaskAccessNoBypass(table, taskId, userId, userRole, operation) ==
  IF taskId \notin DOMAIN table THEN "NotFoundError"
  ELSE LET task == table[taskId]
       IN CASE operation = "read" ->
                 IF userRole = "Contributor"
                 THEN Bool(task.createdBy = userId \/ task.assignedTo = userId)
                 ELSE Bool(task.assignedTo = userId)
            [] operation = "write" ->
                 Bool(/\ userRole = "Contributor"
                      /\ (task.createdBy = userId \/ task.assignedTo = userId))
            [] operation = "delete" -> "false"

\* the service with the Viewer's read tested like the Contributor's
authorizeTaskAccessOwnerRead(table, taskId, userId, userRole, operation) ==
  IF userRole = "Admin" THEN "true"
  ELSE IF taskId \notin DOMAIN table THEN "NotFoundError"
  ELSE LET task == table[taskId]
       IN CASE operation = "read" ->
                 Bool(task.createdBy = userId \/ task.assignedTo = userId)
            [] operation = "write" ->
                 Bool(/\ userRole = "Contributor"
                      /\ (task.createdBy = userId \/ task.assignedTo = userId))
            [] operation = "delete" -> "false"

\* TaskAuthorizationService.authorizeTaskAccess over the table findById
\* reads: "true", "false", or the NotFoundError it throws
authorizeTaskAccess(table, taskId, userId, userRole, operation) ==
  IF userRole = "Admin" THEN "true"
  ELSE IF taskId \notin DOMAIN table THEN "NotFoundError"
  ELSE LET task == table[taskId]
       IN CASE operation = "read" ->
                 IF userRole = "Contributor"
                 THEN Bool(task.createdBy = userId \/ task.assignedTo = userId)
                 ELSE Bool(task.assignedTo = userId)
            [] operation = "write" ->
                 Bool(/\ userRole = "Contributor"
                      /\ (task.createdBy = userId \/ task.assignedTo = userId))
            [] operation = "delete" -> "false"

Operations == {"read", "write", "delete"}

\* a call of the service between requests.  The service does not go
\* through the gateway and cannot see its cache; its calls are looked at
\* at the moments the cache is empty.
AuthorizeTaskAccess ==
  /\ pc = "idle"
  /\ ~cache.cached
  /\ \E taskId \in TaskIds, userId \in Users, userRole \in GroupNames,
        operation \in Operations :
       svc' = [fn        |-> "authorizeTaskAccess",
               taskId    |-> taskId,
               userId    |-> userId,
               userRole  |-> userRole,
               operation |-> operation,
               outcome   |-> authorizeTaskAccess(store, taskId, userId,
                                                 userRole, operation)]
  /\ pc' = "answered"
  /\ UNCHANGED <<store, token, authorizerResult, authRuns, handlerRuns,
                 authContext, event, before, item, response, denials, cache>>
  /\ UNCHANGED <<validatorVars, requests, componentVars>>

(***************************************************************************)
(* The task repository's listing (part_000 168-190).  deduplicateAndSort   *)
(* is not among the sources: it is modelled on the specification (4.4):    *)
(* one item per task id, most recently updated first, equal update times   *)
(* by task id ascending.                                                   *)
(***************************************************************************)
\* the task ids in ascending order
TaskIdOrder == <<"t1", "t2">>
idRank(taskId) == CHOOSE i \in DOMAIN TaskIdOrder : TaskIdOrder[i] = taskId

\* queryTasksByIndex(index, attribute, userId): the items whose attribute is
\* userId, in the order of the index's sort key, which the model leaves open
queryTasksByIndex(table, attribute, userId) ==
  LET keys == {k \in DOMAIN table : table[k][attribute] = userId}
  IN ScanResults([k \in keys |-> table[k]])

\* the queries with the Contributor asking the assignee index only
findTasksByRoleAssignedOnly(table, userId, role) ==
  CASE role = "Admin" -> ScanResults(table)
    [] role \in {"Contributor", "Viewer"} ->
         queryTasksByIndex(table, "assignedTo", userId)
    [] OTHER -> {<< >>}

\* findTasksByRole up to results.flat()  (lines 169-189): the results of
\* the role's queries, one after the other; the switch has no default, so
\* another role has no query
findTasksByRole(table, userId, role) ==
  CASE role = "Admin" -> ScanResults(table)
    [] role = "Contributor" ->
         {created \o assigned :
            created \in queryTasksByIndex(table, "createdBy", userId),
            assigned \in queryTasksByIndex(table, "assignedTo", userId)}
    [] role = "Viewer" -> queryTasksByIndex(table, "assignedTo", userId)
    [] OTHER -> {<< >>}

\* the first item of each task id, in the order of the list
RECURSIVE deduplicate(_)
deduplicate(tasks) ==
  IF Len(tasks) = 0 THEN << >>
  ELSE LET front == deduplicate(SubSeq(tasks, 1, Len(tasks) - 1))
           last  == tasks[Len(tasks)]
       IN IF \E i \in DOMAIN front : front[i].taskId = last.taskId
          THEN front
          ELSE Append(front, last)

\* a comes before b: updated later, or at the same time with the lower id
listedBefore(a, b) ==
  \/ a.updatedAt > b.updatedAt
  \/ /\ a.updatedAt = b.updatedAt
     /\ idRank(a.taskId) < idRank(b.taskId)

\* this.deduplicateAndSort(results.flat())  (line 189)
deduplicateAndSort(tasks) == SortSeq(deduplicate(tasks), listedBefore)

\* a call of findTasksByRole between requests, looked at like the calls of
\* authorizeTaskAccess
FindTasksByRole ==
  /\ pc = "idle"
  /\ ~cache.cached
  /\ \E userId \in Users, role \in GroupNames :
       \E fetched \in findTasksByRole(store, userId, role) :
         svc' = [fn       |-> "findTasksByRole",
                 userId   |-> userId,
                 userRole |-> role,
                 fetched  |-> fetched,
                 outcome  |-> deduplicateAndSort(fetched)]
  /\ pc' = "answered"
  /\ UNCHANGED <<store, token, authorizerResult, authRuns, handlerRuns,
                 authContext, event, before, item, response, denials, cache>>
  /\ UNCHANGED <<validatorVars, requests, componentVars>>

(***************************************************************************)
(* JWTValidator (part_000 198-225).  validateToken is four awaited steps:  *)
(* jwt.decode and the read of the header's kid, getSigningKey, jwt.verify, *)
(* validateCustomClaims.  getSigningKey is not among the sources: it is    *)
(* modelled on the key-set cache of the specification (4.1, 5): a cached   *)
(* key set, one refresh for an unknown key id, no second refresh for that  *)
(* key id within a cooldown window, callers sharing the refresh in flight, *)
(* a bounded wait.  The fetch itself is taken to answer with the published *)
(* key set or not at all.                                                  *)
(***************************************************************************)
\* jwt.decode(token, { complete: true })  (line 200): the decoded token, or
\* null for a string that is not three parts
Null == [null |-> TRUE]
decode(t) == IF t.kind = "jwt" THEN [header |-> [kid |-> t.kid]] ELSE Null

\* jwt.verify(token, key, { algorithms, issuer, audience })  (lines 203-207):
\* the message of the error it throws, "none" when it returns the payload.
\* It checks the signature, then exp against the clock in whole seconds,
\* then audience and issuer.
jwtVerify(t, nowMs) ==
  IF t.signedBy # "pool" THEN "invalid signature"
  ELSE IF nowMs \div 1000 >= t.payload.exp THEN "jwt expired"
  ELSE IF t.issuer # "pool" THEN "jwt issuer invalid"
  ELSE "none"

\* Date.now() / 1000 - payload.iat  (line 215), in milliseconds to stay
\* among the integers
tokenAgeMs(payload, nowMs) == nowMs - payload.iat * 1000

UserStatuses == {"CONFIRMED", "UNCONFIRMED"}

\* the age check turning away a token from the moment it reaches maxAge
validateCustomClaimsAtMaxAge(payload, nowMs, userStatus) ==
  IF tokenAgeMs(payload, nowMs) >= maxAge * 1000 THEN "Token too old"
  ELSE IF userStatus # "CONFIRMED" THEN "User not confirmed"
  ELSE IF Len(payload.groups) = 0 THEN "No assigned groups"
  ELSE "none"

\* validateCustomClaims  (lines 213-224): the message of the error it
\* throws, "none" when it returns
validateCustomClaims(payload, nowMs, userStatus) ==
  IF tokenAgeMs(payload, nowMs) > maxAge * 1000 THEN "Token too old"
  ELSE IF userStatus # "CONFIRMED" THEN "User not confirmed"
  ELSE IF Len(payload.groups) = 0 THEN "No assigned groups"
  ELSE "none"

\* a call that has just been handed its token
Started(t) ==
  [pc        |-> "decode",
   token     |-> t,
   error     |-> "none",
   lookups   |-> 0,       \* key-set lookups made for the call
   refreshes |-> 0,       \* refreshes the call started or waited on
   limited   |-> FALSE,   \* the cooldown kept the call from refreshing
   awaits    |-> 0,       \* the fetch the call waits on, or gave up on
   verified  |-> FALSE,   \* jwt.verify was run on the token
   checkedAt |-> 0]       \* the clock when validateCustomClaims ran

Fail(c, error) == [c EXCEPT !.pc = "failed", !.error = error]

ValidatorStep(i, c) ==
  /\ calls' = [calls EXCEPT ![i] = c]
  /\ UNCHANGED <<pipelineVars, requests, componentVars>>

\* validateToken(token) up to its first await  (lines 199-201): a null from
\* jwt.decode makes the read of decoded.header throw a TypeError
ValidateToken(i, t) ==
  /\ calls[i].pc = "idle"
  /\ ValidatorStep(i, IF decode(t) = Null
                      THEN Fail(Started(t), "TypeError")
                      ELSE [Started(t) EXCEPT !.pc = "getSigningKey"])
  /\ UNCHANGED <<keySet, refresh, cooldown, now>>

\* the refresh a caller with an unknown key id finds in flight and waits on
\* instead of fetching; here a caller that never sees one
pendingRefreshUnseen(fetches) == {}

\* the refresh a caller with an unknown key id finds in flight and waits on
\* instead of fetching
pendingRefresh(fetches) == fetches

\* the cooldown that never holds a caller back
inCooldownNever(windows, kid) == FALSE

\* whether a refresh for this key id was started within the cooldown window
\* that is running
inCooldown(windows, kid) == windows[kid] > 0

\* getSigningKey(kid): the cached key; for an unknown key id the wait on the
\* refresh in flight, or a refresh of its own unless the cooldown of the key
\* id forbids it
GetSigningKey(i) ==
  LET c   == [calls[i] EXCEPT !.lookups = @ + 1]
      kid == calls[i].token.kid
  IN /\ calls[i].pc = "getSigningKey"
     /\ IF kid \in keySet
        THEN /\ ValidatorStep(i, [c EXCEPT !.pc = "verify"])
             /\ UNCHANGED <<refresh, cooldown>>
        ELSE IF pendingRefresh(refresh) # {}
        THEN /\ \E r \in pendingRefresh(refresh) :
                  ValidatorStep(i, [c EXCEPT !.pc = "waiting", !.awaits = r,
                                             !.refreshes = @ + 1])
             /\ UNCHANGED <<refresh, cooldown>>
        ELSE IF inCooldown(cooldown, kid)
        THEN /\ ValidatorStep(i, [Fail(c, "KeyNotFound")
                                    EXCEPT !.limited = TRUE])
             /\ UNCHANGED <<refresh, cooldown>>
        ELSE /\ ValidatorStep(i, [c EXCEPT !.pc = "waiting", !.awaits = i,
                                           !.refreshes = @ + 1])
             /\ refresh' = refresh \cup {i}
             /\ cooldown' = [cooldown EXCEPT ![kid] = @ + 1]
     /\ UNCHANGED <<keySet, now>>

\* the fetch started by call r answers: the published key set replaces the
\* cached one, and every call waiting on this fetch goes on with its key or
\* fails for want of it
RefreshCompletes(r) ==
  /\ r \in refresh
  /\ refresh' = refresh \ {r}
  /\ keySet' = PublishedKeys
  /\ calls' = [i \in CallIds |->
                 IF calls[i].pc = "waiting" /\ calls[i].awaits = r
                 THEN IF calls[i].token.kid \in PublishedKeys
                      THEN [calls[i] EXCEPT !.pc = "verify", !.awaits = 0]
                      ELSE Fail([calls[i] EXCEPT !.awaits = 0], "KeyNotFound")
                 ELSE calls[i]]
  /\ UNCHANGED <<cooldown, now>>
  /\ UNCHANGED <<pipelineVars, requests, componentVars>>

\* the wait that is bounded only for the call that started the fetch
TimeoutOfStarter(i) ==
  /\ calls[i].pc = "waiting"
  /\ calls[i].awaits = i
  /\ ValidatorStep(i, Fail(calls[i], "KeyNotFound"))
  /\ UNCHANGED <<keySet, refresh, cooldown, now>>

\* the wait on the refresh reaches its timeout
Timeout(i) ==
  /\ calls[i].pc = "waiting"
  /\ ValidatorStep(i, Fail(calls[i], "KeyNotFound"))
  /\ UNCHANGED <<keySet, refresh, cooldown, now>>

\* the request is cancelled while the call waits on the refresh
Cancel(i) ==
  /\ calls[i].pc = "waiting"
  /\ ValidatorStep(i, [calls[i] EXCEPT !.pc = "cancelled", !.awaits = 0])
  /\ UNCHANGED <<keySet, refresh, cooldown, now>>

\* jwt.verify  (lines 203-207)
Verify(i) ==
  LET c   == [calls[i] EXCEPT !.verified = TRUE]
      err == jwtVerify(calls[i].token, Instants[now])
  IN /\ calls[i].pc = "verify"
     /\ ValidatorStep(i, IF err # "none" THEN Fail(c, err)
                         ELSE [c EXCEPT !.pc = "validateCustomClaims"])
     /\ UNCHANGED <<keySet, refresh, cooldown, now>>

\* await this.validateCustomClaims(payload); return payload  (lines 209-210)
ValidateCustomClaims(i) ==
  /\ calls[i].pc = "validateCustomClaims"
  /\ \E userStatus \in UserStatuses :
       LET c   == [calls[i] EXCEPT !.checkedAt = Instants[now]]
           err == validateCustomClaims(calls[i].token.payload, Instants[now],
                                       userStatus)
       IN ValidatorStep(i, IF err # "none" THEN Fail(c, err)
                           ELSE [c EXCEPT !.pc = "done"])
  /\ UNCHANGED <<keySet, refresh, cooldown, now>>

\* the caller has the payload, the error or its cancellation
Return(i) ==
  /\ calls[i].pc \in {"done", "failed", "cancelled"}
  /\ ValidatorStep(i, IdleCall)
  /\ UNCHANGED <<keySet, refresh, cooldown, now>>

\* the cooldown window of a key id runs out
CooldownElapses(kid) ==
  /\ cooldown[kid] > 0
  /\ cooldown' = [cooldown EXCEPT ![kid] = 0]
  /\ UNCHANGED <<calls, keySet, refresh, now>>
  /\ UNCHANGED <<pipelineVars, requests, componentVars>>

\* time passes
Tick ==
  /\ now < Len(Instants)
  /\ now' = now + 1
  /\ UNCHANGED <<calls, keySet, refresh, cooldown>>
  /\ UNCHANGED <<pipelineVars, requests, componentVars>>

(***************************************************************************)
(* The tasks Lambda invoked for several requests at once (tasks.test.ts    *)
(* 627-722).  Each invocation runs on its own; they share the table.  An   *)
(* awaited docClient.send is one step on the table: createTask and         *)
(* deleteTask have one, updateTask has two, its Get and its Put, and other *)
(* invocations can take their steps between the two.                       *)
(***************************************************************************)
\* everything of the single-request pipeline but the table
inFlightVars == <<pc, token, authorizerResult, authRuns, handlerRuns,
                  authContext, event, before, item, response, svc, denials,
                  cache>>

\* the AuthContext an invocation is handed
AuthContexts == [userId : Users, role : Roles]

\* the bodies of the concurrent updateTask requests: one field each
FieldUpdates == [status : Statuses] \cup [assignedTo : Users]

\* createTask  (lines 627-660): the role check and the Put
ConcurrentCreateTask(r) ==
  /\ requests[r].pc = "idle"
  /\ \E auth \in AuthContexts :
       IF createTaskDenied(auth)
       THEN /\ requests' = [requests EXCEPT ![r] =
                  [pc |-> "done", method |-> "POST", statusCode |-> 403]]
            /\ UNCHANGED store
       ELSE \E id \in TaskIds \ DOMAIN store, a \in Users \cup {Undefined} :
              LET task == [taskId     |-> id,
                           status     |-> "pending",
                           assignedTo |-> IF a = Undefined
                                          THEN auth.userId ELSE a,
                           createdBy  |-> auth.userId,
                           updatedAt  |-> Instants[now]]
              IN /\ store' = Put(store, task)
                 /\ requests' = [requests EXCEPT ![r] =
                      [pc |-> "done", method |-> "POST", statusCode |-> 201,
                       taskId |-> id]]
  /\ UNCHANGED <<inFlightVars, validatorVars, componentVars>>

\* updateTask up to its PutCommand  (lines 662-689): the Get, the 404, the
\* permission check on the item read, the merge
ConcurrentUpdateGet(r) ==
  /\ requests[r].pc = "idle"
  /\ \E taskId \in TaskIds, auth \in AuthContexts, updates \in FieldUpdates :
       LET early == updateTaskEarly(store, taskId, auth)
       IN requests' = [requests EXCEPT ![r] =
            IF early # 0
            THEN [pc |-> "done", method |-> "PUT", statusCode |-> early,
                  taskId |-> taskId]
            ELSE [pc      |-> "put",
                  method  |-> "PUT",
                  taskId  |-> taskId,
                  updates |-> updates,
                  task    |-> store[taskId],
                  updatedTask |-> [Merge(store[taskId], updates)
                                     EXCEPT !.updatedAt = Instants[now]]]]
  /\ UNCHANGED store
  /\ UNCHANGED <<inFlightVars, validatorVars, componentVars>>

\* updateTask from its PutCommand on  (lines 691-700): the item merged
\* from the task read earlier is Put, whatever the table holds by now;
\* `fresh` notes whether the table still held the task as it was read
ConcurrentUpdatePut(r) ==
  /\ requests[r].pc = "put"
  /\ store' = Put(store, requests[r].updatedTask)
  /\ requests' = [requests EXCEPT ![r] =
       [pc         |-> "done",
        method     |-> "PUT",
        statusCode |-> 200,
        taskId     |-> requests[r].taskId,
        updates    |-> requests[r].updates,
        fresh      |-> /\ requests[r].taskId \in DOMAIN store
                       /\ store[requests[r].taskId] = requests[r].task]]
  /\ UNCHANGED <<inFlightVars, validatorVars, componentVars>>

\* deleteTask  (lines 703-722): the role check and the Delete
ConcurrentDeleteTask(r) ==
  /\ requests[r].pc = "idle"
  /\ \E taskId \in TaskIds, auth \in AuthContexts :
       LET early == deleteTaskEarly(store, taskId, auth)
       IN /\ requests' = [requests EXCEPT ![r] =
               [pc |-> "done", method |-> "DELETE",
                statusCode |-> IF early # 0 THEN early ELSE 200,
                taskId |-> taskId]]
          /\ store' = IF early # 0 THEN store ELSE Delete(store, taskId)
  /\ UNCHANGED <<inFlightVars, validatorVars, componentVars>>

\* the invocation's response has gone out and its slot is free again
Respond(r) ==
  /\ requests[r].pc = "done"
  /\ requests' = [requests EXCEPT ![r] = IdleRequest]
  /\ UNCHANGED store
  /\ UNCHANGED <<inFlightVars, validatorVars, componentVars>>

(***************************************************************************)
(* TaskList (frontend/src/components/TaskList.tsx).                        *)
(***************************************************************************)
\* the options of the status select  (lines 85-87)
StatusOptions == {"pending", "in-progress", "completed"}

\* the userRole prop: the three groups and the 'User' of the tests
ListRoles == Roles \cup {"User"}

\* the tasks prop: arrays of tasks, of which the select reads taskId and
\* status
TaskArrays ==
  UNION {[1..n -> [taskId : TaskIds, status : Statuses]] :
           n \in 0..MaxTasks}

\* a list item rendered without the select
NoSelect == [rendered |-> FALSE]

\* the select shown to every role but Viewer
showsStatusSelectUnlessViewer(userRole) == userRole # "Viewer"

\* userRole === 'Admin' || userRole === 'Contributor'  (line 78)
showsStatusSelect(userRole) == userRole = "Admin" \/ userRole = "Contributor"

\* what TaskList renders  (lines 31-98): nothing but the empty state for
\* an empty array, else one list item per task, with the status select
\* where the role has it
render(tasks, userRole) ==
  [i \in DOMAIN tasks |->
     [taskId |-> tasks[i].taskId,
      select |-> IF showsStatusSelect(userRole)
                 THEN [rendered |-> TRUE, value |-> tasks[i].status]
                 ELSE NoSelect]]

\* the parent renders TaskList with its props
RenderTaskList ==
  /\ \E tasks \in TaskArrays, userRole \in ListRoles :
       taskList' = [mounted      |-> TRUE,
                    tasks        |-> tasks,
                    userRole     |-> userRole,
                    items        |-> render(tasks, userRole),
                    onUpdateTask |-> NoCall]
  /\ UNCHANGED <<pipelineVars, validatorVars, requests, taskForm>>

\* the user picks an option of a rendered select: onChange calls
\* handleStatusChange(task.taskId, e.target.value), which calls
\* onUpdateTask(taskId, { status })  (lines 11-13, 81)
HandleStatusChange ==
  /\ taskList.mounted
  /\ \E i \in DOMAIN taskList.items, status \in StatusOptions :
       /\ taskList.items[i].select.rendered
       /\ taskList' = [taskList EXCEPT !.onUpdateTask =
                         [called  |-> TRUE,
                          taskId  |-> taskList.items[i].taskId,
                          updates |-> [status |-> status]]]
  /\ UNCHANGED <<pipelineVars, validatorVars, requests, taskForm>>

(***************************************************************************)
(* TaskForm (frontend/src/App.test.tsx 14-140).                            *)
(***************************************************************************)
\* the fields validateForm looks at
RequiredFields == {"title", "description", "deadline"}

\* the fields the user edits here, with the values each can take: texts
\* for the title, '', ' ' or a letter for the description and the date
\* input, the options of the priority select
ChangeValues ==
  [title       |-> Texts,
   description |-> {t \in Texts : Len(t) <= 1},
   deadline    |-> {t \in Texts : Len(t) <= 1},
   priority    |-> {"low", "medium", "high"}]

\* an error message is shown: errors[name] is a non-empty string
Truthy(errors, name) == name \in DOMAIN errors /\ errors[name] # ""

\* validateForm with the title and the description tested untrimmed
validateFormUntrimmed(formData) ==
  LET missing == {f \in RequiredFields : formData[f] = << >>}
  IN [f \in missing |->
        CASE f = "title"       -> "Title is required"
          [] f = "description" -> "Description is required"
          [] f = "deadline"    -> "Deadline is required"]

\* validateForm: newErrors  (lines 33-47)
validateForm(formData) ==
  LET missing == {f \in RequiredFields :
                    \/ f = "title" /\ trim(formData.title) = << >>
                    \/ f = "description" /\ trim(formData.description) = << >>
                    \/ f = "deadline" /\ formData.deadline = << >>}
  IN [f \in missing |->
        CASE f = "title"       -> "Title is required"
          [] f = "description" -> "Description is required"
          [] f = "deadline"    -> "Deadline is required"]

\* handleSubmit  (lines 52-57): setErrors(newErrors), and onSubmit(formData)
\* when newErrors has no key  (lines 49-50)
HandleSubmit ==
  /\ LET newErrors == validateForm(taskForm.formData)
     IN taskForm' = [taskForm EXCEPT
                       !.errors   = newErrors,
                       !.handled  = "submit",
                       !.onSubmit = IF DOMAIN newErrors = {}
                                    THEN [called |-> TRUE,
                                          data   |-> taskForm.formData]
                                    ELSE NoCall]
  /\ UNCHANGED <<pipelineVars, validatorVars, requests, taskList>>

\* handleChange  (lines 59-73): the field takes the value, and an error
\* shown for the field is replaced by ''
HandleChange(name, value) ==
  /\ taskForm' = [taskForm EXCEPT
                    !.formData = [taskForm.formData EXCEPT ![name] = value],
                    !.errors   = IF Truthy(taskForm.errors, name)
                                 THEN [taskForm.errors EXCEPT ![name] = ""]
                                 ELSE taskForm.errors,
                    !.handled  = "change",
                    !.onSubmit = NoCall]
  /\ UNCHANGED <<pipelineVars, validatorVars, requests, taskList>>

Change ==
  \E name \in DOMAIN ChangeValues :
    \E value \in ChangeValues[name] : HandleChange(name, value)

Next ==
  \/ Request
  \/ RequestCached
  \/ CacheExpire
  \/ Reply
  \/ Authorizer
  \/ Integrate
  \/ GetTasks
  \/ CreateTask
  \/ UpdateTaskGet
  \/ UpdateTaskPut
  \/ DeleteTask
  \/ MethodNotAllowed
  \/ AuthorizeTaskAccess
  \/ FindTasksByRole

Spec == Init /\ [][Next]_vars

\* the authorizer alone, fed one credential after another, with the denials
\* it produced on record
NextAuthorizer ==
  \/ Request
  \/ AuthorizerObserved
  \/ Reply

SpecAuthorizer == Init /\ [][NextAuthorizer]_vars

\* JWTValidator, one validateToken call after another, on every token
NextValidator ==
  \/ \E t \in ValidatorTokens : ValidateToken(1, t)
  \/ GetSigningKey(1)
  \/ \E r \in CallIds : RefreshCompletes(r)
  \/ Timeout(1)
  \/ Cancel(1)
  \/ Verify(1)
  \/ ValidateCustomClaims(1)
  \/ Return(1)
  \/ \E kid \in Kids : CooldownElapses(kid)
  \/ Tick

SpecValidator == Init /\ [][NextValidator]_vars

\* JWTValidator, NumCalls validateToken calls at once, on the tokens the
\* pool issues under each key id
NextKeySet ==
  \/ \E i \in CallIds, t \in IssuedTokens : ValidateToken(i, t)
  \/ \E i \in CallIds : GetSigningKey(i)
  \/ \E r \in CallIds : RefreshCompletes(r)
  \/ \E i \in CallIds : Timeout(i)
  \/ \E i \in CallIds : Cancel(i)
  \/ \E i \in CallIds : Verify(i)
  \/ \E i \in CallIds : ValidateCustomClaims(i)
  \/ \E i \in CallIds : Return(i)
  \/ \E kid \in Kids : CooldownElapses(kid)

SpecKeySet == Init /\ [][NextKeySet]_vars

\* the same, with the timer of every wait firing in the end
SpecKeySetFair ==
  /\ Init
  /\ [][NextKeySet]_vars
  /\ \A i \in CallIds : WF_vars(Timeout(i))

\* the pipeline over a table whose scan can be rejected, with createTask
\* bodies that carry a title or none
NextStoreFaults ==
  \/ Request
  \/ RequestCached
  \/ CacheExpire
  \/ Reply
  \/ Authorizer
  \/ Integrate
  \/ GetTasks
  \/ GetTasksRejected
  \/ CreateTaskWithBody
  \/ UpdateTaskGet
  \/ UpdateTaskPut
  \/ DeleteTask
  \/ MethodNotAllowed

SpecStoreFaults == Init /\ [][NextStoreFaults]_vars

NextTaskList ==
  \/ RenderTaskList
  \/ HandleStatusChange

SpecTaskList == Init /\ [][NextTaskList]_vars

NextTaskForm ==
  \/ HandleSubmit
  \/ Change

SpecTaskForm == Init /\ [][NextTaskForm]_vars

\* the tasks Lambda serving several requests at once
NextConcurrent ==
  \/ \E r \in RequestIds : ConcurrentCreateTask(r)
  \/ \E r \in RequestIds : ConcurrentUpdateGet(r)
  \/ \E r \in RequestIds : ConcurrentUpdatePut(r)
  \/ \E r \in RequestIds : ConcurrentDeleteTask(r)
  \/ \E r \in RequestIds : Respond(r)

SpecConcurrent == Init /\ [][NextConcurrent]_vars

TypeOK ==
  /\ \A k \in DOMAIN store : store[k].taskId = k
  /\ pc \in {"idle", "received", "authorized", "rejected", "integration",
            "put", "done", "answered"}


(***************************************************************************)
(* Vocabulary of the properties.                                           *)
(***************************************************************************)
\* the handler ran for the request in flight and its outcome is decided
Handled(method) ==
  /\ pc \in {"put", "done"}
  /\ event.httpMethod = method

\* the request was aimed at a task that was in the table
OnExisting == event.taskId \in DOMAIN before

Target == before[event.taskId]

IsCreator(task, userId)  == task.createdBy = userId
IsAssignee(task, userId) == task.assignedTo = userId
Related(task, userId)    == IsCreator(task, userId) \/ IsAssignee(task, userId)

\* updateTask let the write through / turned it down
WriteAllowed == pc = "put" \/ response.statusCode = 200
WriteDenied  == pc = "done" /\ response.statusCode = 403

\* the service was called on a task that is in the table
Asked(operation) ==
  /\ svc.fn = "authorizeTaskAccess"
  /\ svc.operation = operation
  /\ svc.taskId \in DOMAIN store

Listed == {response.data[i].taskId : i \in DOMAIN response.data}

(***************************************************************************)
(* C1.  An Admin's read, write and delete of an existing task are allowed  *)
(* whatever the Admin's relationship to the task: the service answers true *)
(* for all three operations, updateTask does not answer 403 and writes the *)
(* item, deleteTask answers 200 and removes the task, and the listing      *)
(* holds every task of the table.                                          *)
(***************************************************************************)
AdminAlwaysAllowed ==
  /\ \A op \in Operations :
       Asked(op) /\ svc.userRole = "Admin" => svc.outcome = "true"
  /\ Handled("PUT") /\ OnExisting /\ authContext.role = "Admin" =>
       /\ WriteAllowed
       /\ pc = "done" => store[item.taskId] = item
  /\ Handled("DELETE") /\ OnExisting /\ authContext.role = "Admin" =>
       /\ response.statusCode = 200
       /\ event.taskId \notin DOMAIN store
  /\ Handled("GET") /\ authContext.role = "Admin" => Listed = DOMAIN store

\* the service allowed a delete to an Admin who neither created the task
\* nor is assigned to it
AdminUnrelatedAllowed ==
  /\ Asked("delete")
  /\ svc.userRole = "Admin"
  /\ ~Related(store[svc.taskId], svc.userId)
  /\ svc.outcome = "true"

(***************************************************************************)
(* C2.  deleteTask answers 403 to every role but Admin and leaves the      *)
(* table as it was; a task that was in the table when a handler was        *)
(* invoked and is gone afterwards was deleted by an Admin's DELETE.        *)
(***************************************************************************)
DeleteOnlyByAdmin ==
  /\ Handled("DELETE") /\ authContext.role # "Admin" =>
       /\ response.statusCode = 403
       /\ store = before
  /\ pc \in {"put", "done"} /\ DOMAIN before \ DOMAIN store # {} =>
       /\ event.httpMethod = "DELETE"
       /\ authContext.role = "Admin"

\* a Contributor was refused the delete of a task they created
CreatorDeleteRefused ==
  /\ Handled("DELETE")
  /\ OnExisting
  /\ authContext.role = "Contributor"
  /\ IsCreator(Target, authContext.userId)
  /\ response.statusCode = 403

(***************************************************************************)
(* C3.  On an existing task a Contributor's write is allowed exactly when  *)
(* the Contributor is the task's creator or assignee, and a Viewer's write *)
(* is denied, in updateTask and in the service alike.                      *)
(***************************************************************************)
ContributorWriteIffRelated ==
  /\ Handled("PUT") /\ OnExisting =>
       /\ authContext.role = "Contributor" =>
            /\ WriteAllowed <=> Related(Target, authContext.userId)
            /\ WriteDenied <=> ~Related(Target, authContext.userId)
       /\ authContext.role = "Viewer" => WriteDenied /\ store = before
  /\ Asked("write") =>
       /\ svc.userRole = "Contributor" =>
            (svc.outcome = "true" <=> Related(store[svc.taskId], svc.userId))
       /\ svc.userRole = "Viewer" => svc.outcome = "false"
       /\ svc.outcome \in {"true", "false"}

\* a Viewer was refused the update of a task assigned to them
AssignedViewerWriteRefused ==
  /\ Handled("PUT")
  /\ OnExisting
  /\ authContext.role = "Viewer"
  /\ IsAssignee(Target, authContext.userId)
  /\ WriteDenied

(***************************************************************************)
(* C4.  The read of an existing task is allowed to a Contributor exactly   *)
(* when they created it or are assigned to it, to a Viewer exactly when    *)
(* they are assigned to it, and to no non-Admin without a relationship.    *)
(***************************************************************************)
ReadIffRelated ==
  Asked("read") /\ svc.userRole # "Admin" =>
    LET task == store[svc.taskId]
    IN /\ svc.outcome \in {"true", "false"}
       /\ svc.userRole = "Contributor" =>
            (svc.outcome = "true" <=> Related(task, svc.userId))
       /\ svc.userRole = "Viewer" =>
            (svc.outcome = "true" <=> IsAssignee(task, svc.userId))
       /\ ~Related(task, svc.userId) => svc.outcome = "false"

\* a Viewer was refused the read of a task they created and are not
\* assigned to
CreatorViewerReadRefused ==
  /\ Asked("read")
  /\ svc.userRole = "Viewer"
  /\ IsCreator(store[svc.taskId], svc.userId)
  /\ ~IsAssignee(store[svc.taskId], svc.userId)
  /\ svc.outcome = "false"

(***************************************************************************)
(* C5.  getTasks answers an Admin with every task of the table, a          *)
(* Contributor with exactly the tasks they created or are assigned to, a   *)
(* Viewer with exactly the tasks assigned to them.                         *)
(***************************************************************************)
ListingIsRoleScope ==
  Handled("GET") =>
    /\ response.statusCode = 200
    /\ authContext.role = "Admin" => Listed = DOMAIN store
    /\ authContext.role = "Contributor" =>
         Listed = {k \in DOMAIN store : Related(store[k], authContext.userId)}
    /\ authContext.role = "Viewer" =>
         Listed = {k \in DOMAIN store : IsAssignee(store[k], authContext.userId)}
    /\ \A i \in DOMAIN response.data :
         response.data[i] = store[response.data[i].taskId]

\* a Contributor's listing that holds a task they created and are not
\* assigned to, and leaves out a task of somebody else
ContributorListingScoped ==
  /\ Handled("GET")
  /\ authContext.role = "Contributor"
  /\ \E k \in Listed : ~IsAssignee(store[k], authContext.userId)
  /\ DOMAIN store \ Listed # {}

(***************************************************************************)
(* C6.  Whatever made the authorizer fail, the caller is shown the same    *)
(* thing: any two denials on record show the one message 'Unauthorized'.   *)
(***************************************************************************)
DenialsIndistinguishable ==
  \A d1, d2 \in denials :
    /\ d1.shown = d2.shown
    /\ d1.shown = "Unauthorized"

\* denials for every cause the authorizer has are on record
AllCausesDenied ==
  {d.cause : d \in denials} =
    {"No token provided"} \cup TokenFaults

(***************************************************************************)
(* C7.  The authorizer runs exactly once for every request, and before     *)
(* the handler: whenever the handler is invoked or has run, and whenever   *)
(* the table was written, the authorizer has run once for that request; a  *)
(* request that was refused left the handler unrun and the table as it     *)
(* was.                                                                    *)
(***************************************************************************)
AuthorizerOnceBeforeHandler ==
  /\ authRuns <= 1
  /\ pc \in {"authorized", "rejected", "integration", "put", "done"} =>
       authRuns = 1
  /\ handlerRuns >= 1 => authRuns = 1
  /\ store # before /\ pc # "idle" /\ pc # "answered" =>
       handlerRuns = 1 /\ authRuns = 1
  /\ pc = "rejected" => handlerRuns = 0 /\ store = before

\* the highest-priority recognized group of a list: Admin, then Contributor,
\* then Viewer
HighestRole(groups) ==
  LET present == {groups[i] : i \in DOMAIN groups}
  IN IF "Admin" \in present THEN "Admin"
     ELSE IF "Contributor" \in present THEN "Contributor"
     ELSE "Viewer"

(***************************************************************************)
(* C8.  The role the authorizer derives from a group list is the           *)
(* highest-priority recognized group in it (Admin, then Contributor, then  *)
(* Viewer), whatever the order of the list.                                *)
(***************************************************************************)
RoleIsHighestPriorityGroup ==
  /\ pc = "authorized"
  /\ {token.groups[i] : i \in DOMAIN token.groups} \cap Roles # {}
  => authorizerResult.context.role = HighestRole(token.groups)

(***************************************************************************)
(* C9.  A group list that is empty or holds no recognized group gets no    *)
(* role: the resolution fails, and no default role is handed out.          *)
(***************************************************************************)
NoRecognizedGroupFails ==
  /\ authRuns = 1
  /\ pc \in {"authorized", "rejected"}
  /\ verify(token)
  /\ {token.groups[i] : i \in DOMAIN token.groups} \cap Roles = {}
  => authorizerResult.kind = "thrown"

(***************************************************************************)
(* C10.  In every request that reaches the tasks handler the AuthContext   *)
(* role is one of Admin, Contributor, Viewer.                              *)
(***************************************************************************)
HandlerRoleIsARole ==
  handlerRuns >= 1 => authContext.role \in Roles

(***************************************************************************)
(* C11.  The handler has one existence-disclosure policy: to a non-Admin   *)
(* requester, an update and a delete aimed at a task that is not in the    *)
(* table answer with the same status (both 404 or both 403), the existence *)
(* check coming at the same place in updateTask and in deleteTask.         *)
(***************************************************************************)
ExistenceDisclosureUniform ==
  /\ /\ Handled("DELETE")
     /\ ~OnExisting
     /\ authContext.role # "Admin"
     => response.statusCode =
          updateTaskEarly(before, event.taskId, authContext)
  /\ /\ Handled("PUT")
     /\ ~OnExisting
     /\ authContext.role # "Admin"
     => response.statusCode =
          deleteTaskEarly(before, event.taskId, authContext)

(***************************************************************************)
(* C12.  createTask by a requester whose role is neither Admin nor         *)
(* Contributor answers 403 'Insufficient permissions' and writes nothing;  *)
(* a task added to the table was added by an Admin's or a Contributor's    *)
(* request.                                                                *)
(***************************************************************************)
CreateOnlyByAdminOrContributor ==
  /\ Handled("POST") /\ authContext.role \notin {"Admin", "Contributor"} =>
       /\ response.statusCode = 403
       /\ response.error = "Insufficient permissions"
       /\ store = before
  /\ pc \in {"put", "done"} /\ event.httpMethod = "POST"
       /\ DOMAIN store \ DOMAIN before # {} =>
       authContext.role \in {"Admin", "Contributor"}

(***************************************************************************)
(* C13.  updateTask by a regular user (a requester whose role is none of   *)
(* the pool's three, as the 'User' of the unit tests) goes through when    *)
(* the task is assigned to that user, and answers 403 and leaves the table *)
(* as it was when the task is assigned to somebody else.                   *)
(***************************************************************************)
RegularUserUpdatesOwnAssigned ==
  Handled("PUT") /\ OnExisting /\ authContext.role \notin Roles =>
    IF IsAssignee(Target, authContext.userId)
    THEN WriteAllowed
    ELSE WriteDenied /\ store = before

(***************************************************************************)
(* C14.  A task's createdBy is the identity of the requester whose         *)
(* createTask produced it, whatever the request body says, and updateTask  *)
(* leaves the createdBy and the taskId of every task as they were: after   *)
(* an update the table holds the same keys, each task under its own id     *)
(* with the createdBy it had.                                              *)
(***************************************************************************)
CreatedByIsTheCreator ==
  /\ Handled("POST") /\ response.statusCode = 201 =>
       /\ response.data.taskId \notin DOMAIN before
       /\ store[response.data.taskId].createdBy = authContext.userId
  /\ Handled("PUT") /\ pc = "done" /\ OnExisting =>
       /\ DOMAIN store = DOMAIN before
       /\ \A k \in DOMAIN before :
            /\ store[k].taskId = k
            /\ store[k].createdBy = before[k].createdBy

\* the calls that wait on a key-set refresh
Waiting == {i \in CallIds : calls[i].pc = "waiting"}

\* the failure of the specification's taxonomy (7) that an error of
\* validateToken is
FailureKind(error) ==
  CASE error = "jwt malformed"      -> "TokenMalformed"
    [] error = "KeyNotFound"        -> "KeyNotFound"
    [] error = "invalid signature"  -> "TokenInvalid"
    [] error = "jwt issuer invalid" -> "TokenInvalid"
    [] error = "jwt expired"        -> "TokenExpired"
    [] error = "Token too old"      -> "TokenTooOld"
    [] error = "No assigned groups" -> "NoRoleAssigned"
    [] OTHER                        -> "unhandled fault"

(***************************************************************************)
(* C15.  At most one key-set refresh is in flight at any moment: calls     *)
(* that find the key set in need of a refresh while one is in flight wait  *)
(* on that one fetch, so that every waiting call waits on the single fetch *)
(* in flight and none is left waiting once it has answered.                *)
(***************************************************************************)
SingleFlightRefresh ==
  /\ Cardinality(refresh) <= 1
  /\ \A i \in Waiting : calls[i].awaits \in refresh
  /\ \A i, j \in Waiting : calls[i].awaits = calls[j].awaits

\* two calls wait at once, on the one fetch in flight
TwoCallsShareRefresh ==
  /\ Cardinality(Waiting) >= 2
  /\ Cardinality(refresh) = 1

(***************************************************************************)
(* C16.  A call with an unknown key id waits on one refresh, never on a    *)
(* second, before it fails with KeyNotFound; within the cooldown window of *)
(* a key id at most one refresh is started for it, and a call the cooldown *)
(* turns away fails with KeyNotFound without a refresh.                    *)
(***************************************************************************)
OneRefreshPerUnknownKid ==
  /\ \A i \in CallIds : calls[i].pc # "idle" =>
       /\ calls[i].refreshes <= 1
       /\ calls[i].pc = "failed" /\ calls[i].error = "KeyNotFound" =>
            /\ calls[i].token.kid \notin CachedKeys
            /\ calls[i].refreshes = 1 \/ calls[i].limited
       /\ calls[i].limited => calls[i].refreshes = 0
  /\ \A kid \in Kids : cooldown[kid] <= 1

\* a call is turned away with KeyNotFound because a refresh for its key id
\* was started earlier in the window
SecondUnknownKidHeldBack ==
  \E i \in CallIds :
    /\ calls[i].pc = "failed"
    /\ calls[i].limited
    /\ cooldown[calls[i].token.kid] = 1

(***************************************************************************)
(* C17.  Every call that waits on a key-set refresh stops waiting in the   *)
(* end: when the fetch does not answer, the timeout fails the call with    *)
(* KeyNotFound; a call that stops waiting before the fetch answers has     *)
(* failed with KeyNotFound or was cancelled, and a cancelled call has      *)
(* neither payload nor error and went through no later step.               *)
(***************************************************************************)
WaitOnRefreshEnds ==
  /\ \A i \in CallIds :
       (calls[i].pc = "waiting") ~> (calls[i].pc # "waiting")
  /\ [](\A i \in CallIds :
          calls[i].pc = "cancelled" =>
            /\ calls[i].error = "none"
            /\ ~calls[i].verified
            /\ calls[i].checkedAt = 0)
  /\ [][\A i \in CallIds :
          /\ calls[i].pc = "waiting"
          /\ calls'[i].pc # "waiting"
          /\ refresh' = refresh
          => \/ calls'[i].pc = "cancelled"
             \/ /\ calls'[i].pc = "failed"
                /\ calls'[i].error = "KeyNotFound"]_vars

\* a call that joined another call's fetch gave up on it and failed with
\* KeyNotFound, while a fetch is still in flight
JoinedWaitTimedOut ==
  \E i \in CallIds :
    /\ calls[i].pc = "failed"
    /\ calls[i].error = "KeyNotFound"
    /\ calls[i].refreshes = 1
    /\ calls[i].awaits \notin {0, i}
    /\ refresh # {}

(***************************************************************************)
(* C18.  A credential without the three-part structure is rejected as      *)
(* TokenMalformed, and no key lookup, no refresh and no signature          *)
(* verification is made for it.                                            *)
(***************************************************************************)
MalformedFailsFast ==
  \A i \in CallIds :
    calls[i].pc # "idle" /\ calls[i].token.kind = "malformed" =>
      /\ calls[i].pc = "failed"
      /\ FailureKind(calls[i].error) = "TokenMalformed"
      /\ calls[i].lookups = 0
      /\ calls[i].refreshes = 0
      /\ ~calls[i].verified

(***************************************************************************)
(* C19.  The age check of validateCustomClaims passes exactly when         *)
(* now - issuedAt <= maxAge: a token whose age is maxAge is not turned     *)
(* away as too old, an older one fails with 'Token too old', and every     *)
(* token the check is run on has passed the expiry check.                  *)
(***************************************************************************)
AgeCheckIffWithinMaxAge ==
  \A i \in CallIds :
    calls[i].pc # "idle" /\ calls[i].checkedAt # 0 =>
      LET iatMs == calls[i].token.payload.iat * 1000
      IN /\ calls[i].error # "Token too old"
              <=> calls[i].checkedAt - iatMs <= maxAge * 1000
         /\ calls[i].pc = "done" \/ calls[i].pc = "failed"
         /\ calls[i].verified

\* a token aged maxAge to the millisecond got through validateToken
AgeExactlyMaxAccepted ==
  \E i \in CallIds :
    /\ calls[i].pc = "done"
    /\ calls[i].checkedAt - calls[i].token.payload.iat * 1000 = maxAge * 1000

\* the task ids of a list of tasks
Ids(tasks) == {tasks[i].taskId : i \in DOMAIN tasks}
NoRepeatedId(tasks) ==
  \A i, j \in DOMAIN tasks : i # j => tasks[i].taskId # tasks[j].taskId

\* the tasks of the table a user created / is assigned to
OwnerScoped(userId)    == {k \in DOMAIN store : IsCreator(store[k], userId)}
AssigneeScoped(userId) == {k \in DOMAIN store : IsAssignee(store[k], userId)}

(***************************************************************************)
(* C20.  The Contributor's listing holds each task id at most once, a task *)
(* the Contributor both created and is assigned to included, and holds     *)
(* exactly the tasks of the owner-scoped and of the assignee-scoped        *)
(* results together; in getTasks and in findTasksByRole alike.             *)
(***************************************************************************)
ContributorListingDeduplicated ==
  /\ Handled("GET") /\ authContext.role = "Contributor" =>
       /\ NoRepeatedId(response.data)
       /\ Ids(response.data) = OwnerScoped(authContext.userId)
                                 \cup AssigneeScoped(authContext.userId)
  /\ svc.fn = "findTasksByRole" /\ svc.userRole = "Contributor" =>
       /\ NoRepeatedId(svc.outcome)
       /\ Ids(svc.outcome) = OwnerScoped(svc.userId)
                               \cup AssigneeScoped(svc.userId)
       /\ \A i \in DOMAIN svc.outcome :
            svc.outcome[i] = store[svc.outcome[i].taskId]

\* findTasksByRole fetched a task twice, as created and as assigned, and
\* lists it once, beside a task fetched once
BothScopesListedOnce ==
  /\ svc.fn = "findTasksByRole"
  /\ svc.userRole = "Contributor"
  /\ Len(svc.fetched) = 3
  /\ Len(svc.outcome) = 2

\* the list runs from the most recently updated task to the least, tasks
\* updated at the same time by ascending task id
InListingOrder(tasks) ==
  \A i, j \in DOMAIN tasks : i < j => listedBefore(tasks[i], tasks[j])

(***************************************************************************)
(* C21.  The Contributor's listing comes in one order, whatever the order  *)
(* the table or the two queries return the items in: most recently         *)
(* updated first, tasks updated at the same time by ascending task id; in  *)
(* getTasks and in findTasksByRole alike.                                  *)
(***************************************************************************)
ContributorListingOrdered ==
  /\ Handled("GET") /\ authContext.role = "Contributor" =>
       InListingOrder(response.data)
  /\ svc.fn = "findTasksByRole" /\ svc.userRole = "Contributor" =>
       InListingOrder(svc.outcome)

(***************************************************************************)
(* C22.  A listing whose store read fails is answered with status 500 and  *)
(* the error 'Internal server error', not the message of the error the     *)
(* store raised: getTasks answers 200, or 500 with that generic error, and *)
(* always answers.                                                         *)
(***************************************************************************)
ListingFailureIsGeneric500 ==
  Handled("GET") =>
    \/ response.statusCode = 200
    \/ /\ response.statusCode = 500
       /\ response.error = "Internal server error"

\* the body's title is missing, empty or blank
Blank(body) == "title" \notin DOMAIN body \/ trim(body.title) = << >>

(***************************************************************************)
(* C23.  createTask with a missing, empty or blank title answers 400 with  *)
(* the error 'Title is required' and leaves the table as it was, for an    *)
(* Admin as for every other role that may create.                          *)
(***************************************************************************)
BlankTitleRejected ==
  /\ Handled("POST")
  /\ ~createTaskDenied(authContext)
  /\ Blank(event.body)
  => /\ response.statusCode = 400
     /\ response.error = "Title is required"
     /\ store = before

Missing(formData, f) ==
  IF f = "deadline" THEN formData.deadline = << >>
  ELSE trim(formData[f]) = << >>

OthersTasksUntouched ==
  /\ pc \in {"put", "done"}
  /\ handlerRuns >= 1
  /\ authContext.role = "Contributor"
  => \A k \in DOMAIN before :
       ~Related(before[k], authContext.userId) =>
         /\ k \in DOMAIN store
         /\ store[k] = before[k]

(***************************************************************************)
(* C27.  A request whose role is none of Admin, Contributor and Viewer has *)
(* a Viewer's rights at most: its createTask and its updateTask are        *)
(* refused and leave the table as it was, and its listing holds only the   *)
(* tasks assigned to the requester.                                        *)
(***************************************************************************)
UnknownRoleHasViewerRights ==
  authContext.role \notin Roles =>
    /\ Handled("POST") => /\ response.statusCode = 403
                          /\ store = before
    /\ Handled("PUT") => /\ pc = "done"
                         /\ response.statusCode # 200
                         /\ store = before
    /\ Handled("GET") => Listed \subseteq AssigneeScoped(authContext.userId)

(***************************************************************************)
(* C28.  The listing and the Read decision agree for every role, user and  *)
(* table: a task of the table is in the user's listing, that of getTasks   *)
(* and that of findTasksByRole, if and only if authorizeTaskAccess allows  *)
(* the user the read of it.                                                *)
(***************************************************************************)
ListingAgreesWithRead ==
  /\ Handled("GET") =>
       \A k \in DOMAIN store :
         k \in Listed <=>
           authorizeTaskAccess(store, k, authContext.userId,
                               authContext.role, "read") = "true"
  /\ svc.fn = "findTasksByRole" =>
       \A k \in DOMAIN store :
         k \in Ids(svc.outcome) <=>
           authorizeTaskAccess(store, k, svc.userId, svc.userRole,
                               "read") = "true"

\* the invocation answered 200 to an updateTask
Updated(r) ==
  /\ requests[r].pc = "done"
  /\ requests[r].method = "PUT"
  /\ requests[r].statusCode = 200

(***************************************************************************)
(* C29.  Two updateTask requests on the same task that were both allowed   *)
(* and change different fields leave the stored task with both changes,    *)
(* however their Get and Put steps interleave.                             *)
(***************************************************************************)
NoLostUpdate ==
  \A r1, r2 \in RequestIds :
    /\ r1 # r2
    /\ Updated(r1)
    /\ Updated(r2)
    /\ requests[r1].taskId = requests[r2].taskId
    /\ DOMAIN requests[r1].updates # DOMAIN requests[r2].updates
    => /\ requests[r1].taskId \in DOMAIN store
       /\ \A r \in {r1, r2} : \A f \in DOMAIN requests[r].updates :
            store[requests[r].taskId][f] = requests[r].updates[f]

(***************************************************************************)
(* C30.  A task an Admin's deleteTask has removed is in the table again    *)
(* only through a later createTask: no updateTask that read the task       *)
(* before the delete writes it back, and every updateTask writes over the  *)
(* very state of the task that its permission check was made on.           *)
(***************************************************************************)
DeletedStaysDeleted ==
  /\ [][\A d \in RequestIds : \A t \in TaskIds :
          /\ requests[d].pc = "done"
          /\ requests[d].method = "DELETE"
          /\ requests[d].statusCode = 200
          /\ requests[d].taskId = t
          /\ t \notin DOMAIN store
          /\ t \in DOMAIN store'
          => \E c \in RequestIds :
               /\ requests[c].pc = "idle"
               /\ requests'[c].pc = "done"
               /\ requests'[c].method = "POST"
               /\ requests'[c].statusCode = 201
               /\ requests'[c].taskId = t]_vars
  /\ [](\A u \in RequestIds : Updated(u) => requests[u].fresh)

====
